---- MODULE Spec2Model ----
(***************************************************************************)
(* StockPilot inventory tracker: the session / authorization contract and  *)
(* the inventory handlers, as a state machine over the relational store.   *)
(*                                                                         *)
(* Every route handler is split at its store round trips: one action per   *)
(* `await prisma...` together with the local computation that follows it   *)
(* up to the next round trip, so that two requests interleave exactly      *)
(* where the code lets them.                                               *)
(***************************************************************************)
EXTENDS Integers, Sequences, FiniteSets, TLC

VARIABLES
    users,        \* User rows of the store
    items,        \* Item rows of the store
    nextItemId,   \* next generated Item id (ids are never reused)
    now,          \* the clock, in days
    issued,       \* session tokens signed by this deployment so far
    req,          \* per client: the request in flight (handler locals) or the last response
    page          \* the browser page of the signed-in admin: its list, its handlers in flight

vars == <<users, items, nextItemId, now, issued, req, page>>

(***************************************************************************)
(* Bounds of the model                                                     *)
(***************************************************************************)
MaxTicks == 1        \* how many days the clock may advance
MaxItems == 1        \* how many items POST /items may create
MaxSessions == 1     \* how many new session tokens register / login may sign

(***************************************************************************)
(* Program constants                                                       *)
(***************************************************************************)
SessionDays == 7     \* setExpirationTime("7d"), maxAge 60*60*24*7
PasswordMin == 6
NameMin == 2
NameMax == 80
ItemNameMax == 120
SkuMax == 80
TextMax == 80
NotesMax == 240
QuantityMin == 0
SeedItemCount == 3

Secret == "JWT_SECRET"
SESSION_COOKIE == "sp_session"
Roles == {"ADMIN", "MEMBER"}
DefaultRole == "MEMBER"
Statuses == {"ACTIVE", "DISCONTINUED"}
Clients == {"c1", "c2"}

(***************************************************************************)
(* JSON values of request bodies                                           *)
(***************************************************************************)
Num(n) == [t |-> "num", n |-> n]
Str(s) == [t |-> "str", s |-> s]
JNull == [t |-> "null"]
NotJson == [json |-> FALSE]
Json(o) == [json |-> TRUE, obj |-> o]

\* the value a store column holds for SQL NULL
Null == "<null>"

\* Number(v) of z.coerce.number(): the outcome is a set, empty for NaN
NumericStrings == [s \in {"5", ""} |-> IF s = "5" THEN 5 ELSE 0]
CoerceNumber(v) ==
    CASE v.t = "num" -> {v.n}
      [] v.t = "null" -> {0}
      [] v.t = "str" -> IF v.s \in DOMAIN NumericStrings THEN {NumericStrings[v.s]} ELSE {}
      [] OTHER -> {}

(***************************************************************************)
(* Session codec (src/lib/auth.ts)                                         *)
(***************************************************************************)
NoCookie == [k |-> "none"]
Garbage == [k |-> "garbage"]

signSession(payload) ==
    [k |-> "jwt", userId |-> payload.userId, email |-> payload.email,
     role |-> payload.role, iat |-> now, exp |-> now + SessionDays, key |-> Secret]

\* mutant: the expiry of the token is not looked at
verifySession_ignoresExpiry(token) ==
    IF token.k = "jwt" /\ token.key = Secret
    THEN {[userId |-> token.userId, email |-> token.email, role |-> token.role]}
    ELSE {}

\* the payload, as a set with no element for null
verifySession(token) ==
    IF token.k = "none" THEN {}
    ELSE IF token.k = "jwt" /\ token.key = Secret /\ token.exp > now
         THEN {[userId |-> token.userId, email |-> token.email, role |-> token.role]}
         ELSE {}

getSessionFromRequest(cookie) == verifySession(cookie)

PublicUser(u) == [id |-> u.id, email |-> u.email, name |-> u.name, role |-> u.role]

\* mutant: the role is taken from the token instead of the row
requireUser_trustsToken(cookie) ==
    {[id |-> u.id, email |-> u.email, name |-> u.name, role |-> s.role] :
        <<u, s>> \in {<<x, y>> \in users \X getSessionFromRequest(cookie) : x.id = y.userId}}

\* the live user row of the session, as a set with no element for null
requireUser(cookie) ==
    {PublicUser(u) : u \in {x \in users : \E s \in getSessionFromRequest(cookie) : x.id = s.userId}}

buildSessionCookie(token) ==
    [name |-> SESSION_COOKIE, value |-> token, maxAge |-> SessionDays]

clearSessionCookie ==
    [name |-> SESSION_COOKIE, value |-> NoCookie, maxAge |-> 0]

NoSetCookie == [name |-> "<none>"]

\* bcrypt.hash / bcrypt.compare
Hash(password) == <<"bcrypt", 10, password>>
Compare(password, passwordHash) == passwordHash = Hash(password)

(***************************************************************************)
(* Validators (src/lib/validators.ts)                                      *)
(***************************************************************************)
WellFormedEmails == {"demo@stockpilot.dev", "a@x.com", "b@x.com", "c@x.com", "z@x.com"}

ZString(v, min, max) == v.t = "str" /\ Len(v.s) >= min /\ Len(v.s) <= max
ZStringMin(v, min) == v.t = "str" /\ Len(v.s) >= min
ZEmail(v) == v.t = "str" /\ v.s \in WellFormedEmails
ZOptText(v, max) == v.t = "null" \/ ZString(v, 0, max)
ZInt(v) == \E n \in CoerceNumber(v) : n >= QuantityMin
ZStatus(v) == v.t = "str" /\ v.s \in Statuses

Has(o, key) == key \in DOMAIN o

registerSchemaOk(o) ==
    /\ Has(o, "email") /\ ZEmail(o.email)
    /\ Has(o, "password") /\ ZStringMin(o.password, PasswordMin)
    /\ Has(o, "name") /\ ZString(o.name, NameMin, NameMax)

loginSchemaOk(o) ==
    /\ Has(o, "email") /\ ZEmail(o.email)
    /\ Has(o, "password") /\ ZStringMin(o.password, PasswordMin)

ItemKeys == {"name", "sku", "quantity", "category", "location", "minStock", "notes", "status"}
ItemRequired == {"name", "sku", "quantity"}
ItemDefaults == [minStock |-> 0, status |-> "ACTIVE"]

\* one field of itemSchema, on a value that is present
ItemFieldOk(key, v) ==
    CASE key = "name" -> ZString(v, NameMin, ItemNameMax)
      [] key = "sku" -> ZString(v, NameMin, SkuMax)
      [] key \in {"quantity", "minStock"} -> ZInt(v)
      [] key \in {"category", "location"} -> ZOptText(v, TextMax)
      [] key = "notes" -> ZOptText(v, NotesMax)
      [] key = "status" -> ZStatus(v)

\* the parsed value of one field
ItemFieldValue(key, v) ==
    IF key \in {"quantity", "minStock"} THEN CHOOSE n \in CoerceNumber(v) : TRUE
    ELSE IF v.t = "null" THEN Null
    ELSE v.s

\* itemSchema.safeParse: unknown keys are stripped, defaults fill minStock and status
itemSchemaOk(o) ==
    /\ ItemRequired \subseteq DOMAIN o
    /\ \A key \in ItemKeys \cap DOMAIN o : ItemFieldOk(key, o[key])

itemSchemaData(o) ==
    [key \in (ItemKeys \cap DOMAIN o) \cup DOMAIN ItemDefaults |->
        IF key \in DOMAIN o THEN ItemFieldValue(key, o[key]) ELSE ItemDefaults[key]]

\* mutant: keys the schema does not know are passed through to the update
itemUpdateSchemaData_passthrough(o) ==
    [key \in ((ItemKeys \cup {"ownerId"}) \cap DOMAIN o) \cup DOMAIN ItemDefaults |->
        IF key = "ownerId" THEN o[key].n
        ELSE IF key \in DOMAIN o THEN ItemFieldValue(key, o[key]) ELSE ItemDefaults[key]]

\* itemUpdateSchema = itemSchema.partial(): every field optional; the optional
\* wrapper hands an absent field to the default inside it, which fills it in
itemUpdateSchemaOk(o) ==
    \A key \in ItemKeys \cap DOMAIN o : ItemFieldOk(key, o[key])

itemUpdateSchemaData(o) ==
    [key \in (ItemKeys \cap DOMAIN o) \cup DOMAIN ItemDefaults |->
        IF key \in DOMAIN o THEN ItemFieldValue(key, o[key]) ELSE ItemDefaults[key]]

(***************************************************************************)
(* The store                                                               *)
(***************************************************************************)
ItemColumns == ItemKeys \cup {"id", "ownerId", "createdAt", "updatedAt"}

FindUserByEmail(email) == {u \in users : u.email = email}
FindItem(id) == {it \in items : it.id = id}

\* the row prisma.item.create writes
NewItem(id, data, ownerId) ==
    [col \in ItemColumns |->
        CASE col = "id" -> id
          [] col = "ownerId" -> ownerId
          [] col \in {"createdAt", "updatedAt"} -> now
          [] OTHER -> IF col \in DOMAIN data THEN data[col] ELSE Null]

\* the row prisma.item.update writes
UpdatedItem(it, data) ==
    [col \in ItemColumns |->
        CASE col = "updatedAt" -> now
          [] col \in DOMAIN data -> data[col]
          [] OTHER -> it[col]]

\* unique (ownerId, sku)
SkuTaken(ownerId, sku, except) ==
    \E it \in items : it.ownerId = ownerId /\ it.sku = sku /\ it.id \notin except

(***************************************************************************)
(* Seed (src/prisma/seed.js) and the deployment the model starts from      *)
(***************************************************************************)
SeedUser ==
    [id |-> 1, email |-> "demo@stockpilot.dev", name |-> "Demo Manager",
     passwordHash |-> Hash("demo1234"), role |-> "ADMIN"]

baseItems == <<
    [name |-> "Thermal Label Rolls", sku |-> "LBL-THERM-100", quantity |-> 120,
     category |-> "Supplies", location |-> "Aisle 1", minStock |-> 50,
     notes |-> "4x6 rolls", status |-> "ACTIVE"],
    [name |-> "USB Barcode Scanner", sku |-> "SCN-USB-200", quantity |-> 22,
     category |-> "Hardware", location |-> "Aisle 3", minStock |-> 10,
     notes |-> "Plug-and-play", status |-> "ACTIVE"],
    [name |-> "Thermal Printer", sku |-> "PRT-THERM-500", quantity |-> 8,
     category |-> "Hardware", location |-> "Backroom", minStock |-> 5,
     notes |-> "Requires 4x6 labels", status |-> "ACTIVE"] >>

SeedItems ==
    {[col \in ItemColumns |->
        CASE col = "id" -> i
          [] col = "ownerId" -> SeedUser.id
          [] col \in {"createdAt", "updatedAt"} -> 0
          [] OTHER -> baseItems[i][col]] : i \in 1..SeedItemCount}

\* two accounts registered on day 0; the second was promoted by hand on day 2
MemberUser ==
    [id |-> 2, email |-> "a@x.com", name |-> "Alex",
     passwordHash |-> Hash("secret1"), role |-> "MEMBER"]
SecondAdmin ==
    [id |-> 3, email |-> "b@x.com", name |-> "Bo",
     passwordHash |-> Hash("secret2"), role |-> "ADMIN"]

\* what signSession returned on day `day`
TokenOfDay(day, userId, email, role) ==
    [k |-> "jwt", userId |-> userId, email |-> email, role |-> role,
     iat |-> day, exp |-> day + SessionDays, key |-> Secret]

\* a session signed for a row that a database reset has since removed
StaleToken == TokenOfDay(1, 0, "gone@x.com", "ADMIN")

\* signed with another key
ForgedToken ==
    [k |-> "jwt", userId |-> SeedUser.id, email |-> SeedUser.email, role |-> "ADMIN",
     iat |-> 0, exp |-> 1000, key |-> "other-secret"]

\* the sessions signed so far: one per account on day 1, an older one, a stale one
InitialTokens ==
    {TokenOfDay(1, SeedUser.id, SeedUser.email, "ADMIN"),
     TokenOfDay(0, SeedUser.id, SeedUser.email, "ADMIN"),
     TokenOfDay(1, MemberUser.id, MemberUser.email, "MEMBER"),
     TokenOfDay(1, SecondAdmin.id, SecondAdmin.email, "MEMBER"),
     StaleToken}

\* the page before its first render has fetched anything; no handler awaits
NoCall == [handler |-> "none"]

Init ==
    /\ users = {SeedUser, MemberUser, SecondAdmin}
    /\ items = SeedItems
    /\ nextItemId = SeedItemCount + 1
    /\ now = SessionDays
    /\ issued = InitialTokens
    /\ req = [c \in Clients |-> [pc |-> "idle"]]
    /\ page = [items |-> <<>>, calls |-> [c \in Clients |-> NoCall]]

(***************************************************************************)
(* Requests and responses                                                  *)
(*                                                                         *)
(* req[c] is idle, or the request client c sent together with either the   *)
(* handler's position and locals (in flight) or the response (pc = "done"). *)
(***************************************************************************)
RequestFields == {"op", "cookie", "id", "body"}
Request(op, cookie, rest) == [op |-> op, cookie |-> cookie] @@ rest
RequestOf(r) == [f \in DOMAIN r \cap RequestFields |-> r[f]]

Ready(c) == req[c].pc = "idle"

\* the client takes the response; it may then send its next request
Receive(c) ==
    /\ req[c].pc = "done"
    /\ req' = [req EXCEPT ![c] = [pc |-> "idle"]]
    /\ UNCHANGED <<users, items, nextItemId, now, issued, page>>

Response(r, status, json, setCookie) ==
    RequestOf(r) @@ [pc |-> "done", status |-> status, json |-> json, setCookie |-> setCookie]

Reply(c, r, status, json) ==
    req' = [req EXCEPT ![c] = Response(r, status, json, NoSetCookie)]

\* the handler goes on to its next store round trip, holding `locals`
Await(c, r, pc, locals) ==
    req' = [req EXCEPT ![c] = RequestOf(r) @@ [pc |-> pc] @@ locals]

Err(msg) == [error |-> msg]
\* a failure that leaves the handler: the framework answers 500
Uncaught(what) == [uncaught |-> what]

(***************************************************************************)
(* GET /api/items (src/app/api/items/route.ts)                             *)
(***************************************************************************)
\* findMany orderBy updatedAt desc: the store is free to order ties either way
IsListing(seq) ==
    /\ {seq[i] : i \in 1..Len(seq)} = items
    /\ \A i \in 1..Len(seq) - 1 : seq[i].updatedAt >= seq[i + 1].updatedAt

Listings == {seq \in [1..Cardinality(items) -> items] : IsListing(seq)}

ItemsGET(c, cookie) ==
    /\ Ready(c)
    /\ LET r == Request("GET", cookie, <<>>) IN
       IF requireUser(cookie) = {}
       THEN Reply(c, r, 401, Err("Unauthorized"))
       ELSE Await(c, r, "GET_findMany", <<>>)
    /\ UNCHANGED <<users, items, nextItemId, now, issued, page>>

\* mutant: the list is filtered by owner
ItemsGET_findMany_ownOnly(c) ==
    /\ req[c].pc = "GET_findMany"
    /\ \E seq \in Listings :
          LET own == SelectSeq(seq, LAMBDA it : it.ownerId = req[c].cookie.userId) IN
          Reply(c, req[c], 200, [items |-> own])
    /\ UNCHANGED <<users, items, nextItemId, now, issued, page>>

ItemsGET_findMany(c) ==
    /\ req[c].pc = "GET_findMany"
    /\ \E seq \in Listings : Reply(c, req[c], 200, [items |-> seq])
    /\ UNCHANGED <<users, items, nextItemId, now, issued, page>>

(***************************************************************************)
(* POST /api/items (src/app/api/items/route.ts)                            *)
(***************************************************************************)
\* mutant: the payload is validated before the role is looked at
ItemsPOST_validatesFirst(c, cookie, body) ==
    /\ Ready(c)
    /\ LET r == Request("POST", cookie, [body |-> body])
           found == requireUser(cookie) IN
       IF found = {} THEN Reply(c, r, 401, Err("Unauthorized"))
       ELSE LET user == CHOOSE u \in found : TRUE IN
            IF ~body.json THEN Reply(c, r, 500, Uncaught("SyntaxError"))
            ELSE IF ~itemSchemaOk(body.obj) THEN Reply(c, r, 400, Err("Invalid payload"))
            ELSE IF user.role # "ADMIN" THEN Reply(c, r, 403, Err("Admin access required"))
            ELSE Await(c, r, "POST_create",
                       [data |-> itemSchemaData(body.obj), userId |-> user.id])
    /\ UNCHANGED <<users, items, nextItemId, now, issued, page>>

ItemsPOST(c, cookie, body) ==
    /\ Ready(c)
    /\ LET r == Request("POST", cookie, [body |-> body])
           found == requireUser(cookie) IN
       IF found = {} THEN Reply(c, r, 401, Err("Unauthorized"))
       ELSE LET user == CHOOSE u \in found : TRUE IN
            IF user.role # "ADMIN" THEN Reply(c, r, 403, Err("Admin access required"))
            ELSE IF ~body.json THEN Reply(c, r, 500, Uncaught("SyntaxError"))
            ELSE IF ~itemSchemaOk(body.obj) THEN Reply(c, r, 400, Err("Invalid payload"))
            ELSE Await(c, r, "POST_create",
                       [data |-> itemSchemaData(body.obj), userId |-> user.id])
    /\ UNCHANGED <<users, items, nextItemId, now, issued, page>>

ItemsPOST_create(c) ==
    /\ req[c].pc = "POST_create"
    /\ IF SkuTaken(req[c].userId, req[c].data.sku, {})
       THEN /\ Reply(c, req[c], 500, Err("Could not create item"))
            /\ UNCHANGED <<items, nextItemId>>
       ELSE /\ nextItemId <= SeedItemCount + MaxItems
            /\ LET item == NewItem(nextItemId, req[c].data, req[c].userId) IN
               /\ items' = items \cup {item}
               /\ Reply(c, req[c], 201, [item |-> item])
            /\ nextItemId' = nextItemId + 1
    /\ UNCHANGED <<users, now, issued, page>>

(***************************************************************************)
(* PATCH /api/items/:id (src/app/api/items/[id]/route.ts)                  *)
(***************************************************************************)
\* mutant: the body is parsed before the session is looked at
ItemPATCH_parsesFirst(c, cookie, id, body) ==
    /\ Ready(c)
    /\ LET r == Request("PATCH", cookie, [id |-> id, body |-> body]) IN
       IF ~body.json THEN Reply(c, r, 500, Uncaught("SyntaxError"))
       ELSE IF ~itemUpdateSchemaOk(body.obj) THEN Reply(c, r, 400, Err("Invalid payload"))
       ELSE IF requireUser(cookie) = {} THEN Reply(c, r, 401, Err("Unauthorized"))
       ELSE Await(c, r, "PATCH_findUnique", [data |-> itemUpdateSchemaData(body.obj)])
    /\ UNCHANGED <<users, items, nextItemId, now, issued, page>>

ItemPATCH(c, cookie, id, body) ==
    /\ Ready(c)
    /\ LET r == Request("PATCH", cookie, [id |-> id, body |-> body]) IN
       IF requireUser(cookie) = {} THEN Reply(c, r, 401, Err("Unauthorized"))
       ELSE IF ~body.json THEN Reply(c, r, 500, Uncaught("SyntaxError"))
       ELSE IF ~itemUpdateSchemaOk(body.obj) THEN Reply(c, r, 400, Err("Invalid payload"))
       ELSE Await(c, r, "PATCH_findUnique", [data |-> itemUpdateSchemaData(body.obj)])
    /\ UNCHANGED <<users, items, nextItemId, now, issued, page>>

ItemPATCH_findUnique(c) ==
    /\ req[c].pc = "PATCH_findUnique"
    /\ IF FindItem(req[c].id) = {}
       THEN Reply(c, req[c], 404, Err("Not found"))
       ELSE req' = [req EXCEPT ![c].pc = "PATCH_update"]
    /\ UNCHANGED <<users, items, nextItemId, now, issued, page>>

\* mutant: the store has no unique index on (ownerId, sku)
ItemPATCH_update_noUniqueIndex(c) ==
    /\ req[c].pc = "PATCH_update"
    /\ LET found == FindItem(req[c].id) IN
       IF found = {}
       THEN /\ Reply(c, req[c], 500, Uncaught("P2025"))
            /\ UNCHANGED items
       ELSE LET old == CHOOSE it \in found : TRUE
                new == UpdatedItem(old, req[c].data) IN
            /\ items' = (items \ {old}) \cup {new}
            /\ Reply(c, req[c], 200, [item |-> new])
    /\ UNCHANGED <<users, nextItemId, now, issued, page>>

\* mutant: a write that follows another client's write of the same row, not yet
\* received, is refused as a conflict
ItemPATCH_update_detectsConflict(c) ==
    /\ req[c].pc = "PATCH_update"
    /\ LET found == FindItem(req[c].id) IN
       IF found = {}
       THEN /\ Reply(c, req[c], 500, Uncaught("P2025"))
            /\ UNCHANGED items
       ELSE LET old == CHOOSE it \in found : TRUE
                new == UpdatedItem(old, req[c].data) IN
            IF SkuTaken(new.ownerId, new.sku, {new.id})
            THEN /\ Reply(c, req[c], 500, Uncaught("P2002"))
                 /\ UNCHANGED items
            ELSE IF \E d \in Clients \ {c} :
                       /\ req[d].pc = "done" /\ req[d].op = "PATCH"
                       /\ req[d].id = req[c].id /\ req[d].status = 200
            THEN /\ Reply(c, req[c], 409, Err("Conflict"))
                 /\ UNCHANGED items
            ELSE /\ items' = (items \ {old}) \cup {new}
                 /\ Reply(c, req[c], 200, [item |-> new])
    /\ UNCHANGED <<users, nextItemId, now, issued, page>>

ItemPATCH_update(c) ==
    /\ req[c].pc = "PATCH_update"
    /\ LET found == FindItem(req[c].id) IN
       IF found = {}
       THEN /\ Reply(c, req[c], 500, Uncaught("P2025"))
            /\ UNCHANGED items
       ELSE LET old == CHOOSE it \in found : TRUE
                new == UpdatedItem(old, req[c].data) IN
            IF SkuTaken(new.ownerId, new.sku, {new.id})
            THEN /\ Reply(c, req[c], 500, Uncaught("P2002"))
                 /\ UNCHANGED items
            ELSE /\ items' = (items \ {old}) \cup {new}
                 /\ Reply(c, req[c], 200, [item |-> new])
    /\ UNCHANGED <<users, nextItemId, now, issued, page>>

(***************************************************************************)
(* DELETE /api/items/:id (src/app/api/items/[id]/route.ts)                 *)
(***************************************************************************)
ItemDELETE(c, cookie, id) ==
    /\ Ready(c)
    /\ LET r == Request("DELETE", cookie, [id |-> id])
           found == requireUser(cookie) IN
       IF found = {} THEN Reply(c, r, 401, Err("Unauthorized"))
       ELSE LET user == CHOOSE u \in found : TRUE IN
            IF user.role # "ADMIN" THEN Reply(c, r, 403, Err("Admin access required"))
            ELSE Await(c, r, "DELETE_findUnique", [userId |-> user.id])
    /\ UNCHANGED <<users, items, nextItemId, now, issued, page>>

\* mutant: the owner of the row is not compared with the caller
ItemDELETE_findUnique_anyOwner(c) ==
    /\ req[c].pc = "DELETE_findUnique"
    /\ IF FindItem(req[c].id) = {}
       THEN Reply(c, req[c], 404, Err("Not found"))
       ELSE req' = [req EXCEPT ![c].pc = "DELETE_delete"]
    /\ UNCHANGED <<users, items, nextItemId, now, issued, page>>

ItemDELETE_findUnique(c) ==
    /\ req[c].pc = "DELETE_findUnique"
    /\ LET existing == FindItem(req[c].id) IN
       IF existing = {} \/ \E it \in existing : it.ownerId # req[c].userId
       THEN Reply(c, req[c], 404, Err("Not found"))
       ELSE req' = [req EXCEPT ![c].pc = "DELETE_delete"]
    /\ UNCHANGED <<users, items, nextItemId, now, issued, page>>

ItemDELETE_delete(c) ==
    /\ req[c].pc = "DELETE_delete"
    /\ IF FindItem(req[c].id) = {}
       THEN /\ Reply(c, req[c], 500, Uncaught("P2025"))
            /\ UNCHANGED items
       ELSE /\ items' = items \ FindItem(req[c].id)
            /\ Reply(c, req[c], 200, [success |-> TRUE])
    /\ UNCHANGED <<users, nextItemId, now, issued, page>>

(***************************************************************************)
(* POST /api/auth/register (src/unnamed/part_000)                          *)
(***************************************************************************)
NewUserId == Cardinality(users) + 1

\* signing is bounded: a token not signed before needs room under MaxSessions
MaySign(token) ==
    token \in issued \/ Cardinality(issued) < Cardinality(InitialTokens) + MaxSessions

\* mutant: the email is not looked up before the insert
AuthRegister_noLookup(c, body) ==
    /\ Ready(c)
    /\ LET r == Request("REGISTER", NoCookie, [body |-> body]) IN
       IF ~body.json THEN Reply(c, r, 500, Err("Internal server error"))
       ELSE IF ~registerSchemaOk(body.obj) THEN Reply(c, r, 400, Err("Invalid data"))
       ELSE Await(c, r, "REGISTER_create",
                  [email |-> body.obj.email.s, password |-> body.obj.password.s,
                   name |-> body.obj.name.s])
    /\ UNCHANGED <<users, items, nextItemId, now, issued, page>>

AuthRegister(c, body) ==
    /\ Ready(c)
    /\ LET r == Request("REGISTER", NoCookie, [body |-> body]) IN
       IF ~body.json THEN Reply(c, r, 500, Err("Internal server error"))
       ELSE IF ~registerSchemaOk(body.obj) THEN Reply(c, r, 400, Err("Invalid data"))
       ELSE IF FindUserByEmail(body.obj.email.s) # {}
            THEN Reply(c, r, 409, Err("Email already registered"))
       ELSE Await(c, r, "REGISTER_create",
                  [email |-> body.obj.email.s, password |-> body.obj.password.s,
                   name |-> body.obj.name.s])
    /\ UNCHANGED <<users, items, nextItemId, now, issued, page>>

\* mutant: the whole body is handed to the insert, a role in it included
AuthRegister_create_takesRole(c) ==
    /\ req[c].pc = "REGISTER_create"
    /\ IF FindUserByEmail(req[c].email) # {}
       THEN /\ Reply(c, req[c], 500, Err("Internal server error"))
            /\ UNCHANGED <<users, issued>>
       ELSE LET o == req[c].body.obj
                row == [id |-> NewUserId, email |-> req[c].email, name |-> req[c].name,
                        passwordHash |-> Hash(req[c].password),
                        role |-> IF "role" \in DOMAIN o /\ o.role.t = "str" /\ o.role.s \in Roles
                                 THEN o.role.s ELSE DefaultRole]
                user == PublicUser(row)
                token == signSession([userId |-> user.id, email |-> user.email,
                                      role |-> user.role]) IN
            /\ MaySign(token)
            /\ users' = users \cup {row}
            /\ issued' = issued \cup {token}
            /\ req' = [req EXCEPT ![c] =
                    Response(req[c], 201, [user |-> user], buildSessionCookie(token))]
    /\ UNCHANGED <<items, nextItemId, now, page>>

AuthRegister_create(c) ==
    /\ req[c].pc = "REGISTER_create"
    /\ IF FindUserByEmail(req[c].email) # {}
       THEN /\ Reply(c, req[c], 500, Err("Internal server error"))
            /\ UNCHANGED <<users, issued>>
       ELSE LET row == [id |-> NewUserId, email |-> req[c].email, name |-> req[c].name,
                        passwordHash |-> Hash(req[c].password), role |-> DefaultRole]
                user == PublicUser(row)
                token == signSession([userId |-> user.id, email |-> user.email,
                                      role |-> user.role]) IN
            /\ MaySign(token)
            /\ users' = users \cup {row}
            /\ issued' = issued \cup {token}
            /\ req' = [req EXCEPT ![c] =
                    Response(req[c], 201, [user |-> user], buildSessionCookie(token))]
    /\ UNCHANGED <<items, nextItemId, now, page>>

(***************************************************************************)
(* POST /api/auth/login (src/app/api/auth/login/route.ts)                  *)
(***************************************************************************)
\* the response, and beside it what the handler saw: `found` (user is not
\* null) and `valid` (the outcome of bcrypt.compare)
LoginReply(c, r, status, json, setCookie, found, valid) ==
    req' = [req EXCEPT ![c] =
        Response(r, status, json, setCookie) @@ [found |-> found, valid |-> valid]]

\* mutant: an unknown email gets an answer of its own
AuthLogin_tellsUnknownEmail(c, body) ==
    /\ Ready(c)
    /\ LET r == Request("LOGIN", NoCookie, [body |-> body]) IN
       IF ~body.json
       THEN LoginReply(c, r, 500, Err("Internal server error"), NoSetCookie, FALSE, FALSE)
            /\ UNCHANGED issued
       ELSE IF ~loginSchemaOk(body.obj)
       THEN LoginReply(c, r, 400, Err("Invalid credentials"), NoSetCookie, FALSE, FALSE)
            /\ UNCHANGED issued
       ELSE LET found == FindUserByEmail(body.obj.email.s) IN
            IF found = {}
            THEN LoginReply(c, r, 404, Err("No account for this email"), NoSetCookie, FALSE, FALSE)
                 /\ UNCHANGED issued
            ELSE LET row == CHOOSE u \in found : TRUE IN
                 IF ~Compare(body.obj.password.s, row.passwordHash)
                 THEN LoginReply(c, r, 401, Err("Invalid email or password"), NoSetCookie, TRUE, FALSE)
                      /\ UNCHANGED issued
                 ELSE LET token == signSession([userId |-> row.id, email |-> row.email,
                                                role |-> row.role]) IN
                      /\ MaySign(token)
                      /\ issued' = issued \cup {token}
                      /\ LoginReply(c, r, 200, [user |-> PublicUser(row)],
                                    buildSessionCookie(token), TRUE, TRUE)
    /\ UNCHANGED <<users, items, nextItemId, now, page>>

AuthLogin(c, body) ==
    /\ Ready(c)
    /\ LET r == Request("LOGIN", NoCookie, [body |-> body]) IN
       IF ~body.json
       THEN LoginReply(c, r, 500, Err("Internal server error"), NoSetCookie, FALSE, FALSE)
            /\ UNCHANGED issued
       ELSE IF ~loginSchemaOk(body.obj)
       THEN LoginReply(c, r, 400, Err("Invalid credentials"), NoSetCookie, FALSE, FALSE)
            /\ UNCHANGED issued
       ELSE LET found == FindUserByEmail(body.obj.email.s) IN
            IF found = {}
            THEN LoginReply(c, r, 401, Err("Invalid email or password"), NoSetCookie, FALSE, FALSE)
                 /\ UNCHANGED issued
            ELSE LET row == CHOOSE u \in found : TRUE IN
                 IF ~Compare(body.obj.password.s, row.passwordHash)
                 THEN LoginReply(c, r, 401, Err("Invalid email or password"), NoSetCookie, TRUE, FALSE)
                      /\ UNCHANGED issued
                 ELSE LET token == signSession([userId |-> row.id, email |-> row.email,
                                                role |-> row.role]) IN
                      /\ MaySign(token)
                      /\ issued' = issued \cup {token}
                      /\ LoginReply(c, r, 200, [user |-> PublicUser(row)],
                                    buildSessionCookie(token), TRUE, TRUE)
    /\ UNCHANGED <<users, items, nextItemId, now, page>>

(***************************************************************************)
(* GET /api/auth/me (src/unnamed/part_001)                                 *)
(***************************************************************************)
AuthMe(c, cookie) ==
    /\ Ready(c)
    /\ LET r == Request("ME", cookie, <<>>)
           found == requireUser(cookie) IN
       IF found = {} THEN Reply(c, r, 200, [user |-> JNull])
       ELSE Reply(c, r, 200, [user |-> CHOOSE u \in found : TRUE])
    /\ UNCHANGED <<users, items, nextItemId, now, issued, page>>

(***************************************************************************)
(* POST /api/auth/logout (src/unnamed/part_002)                            *)
(***************************************************************************)
\* mutant: the response does not set the cleared cookie
AuthLogout_keepsCookie(c, cookie) ==
    /\ Ready(c)
    /\ req' = [req EXCEPT ![c] =
           Response(Request("LOGOUT", cookie, <<>>), 200, [success |-> TRUE], NoSetCookie)]
    /\ UNCHANGED <<users, items, nextItemId, now, issued, page>>

AuthLogout(c, cookie) ==
    /\ Ready(c)
    /\ req' = [req EXCEPT ![c] =
           Response(Request("LOGOUT", cookie, <<>>), 200, [success |-> TRUE], clearSessionCookie)]
    /\ UNCHANGED <<users, items, nextItemId, now, issued, page>>

(***************************************************************************)
(* The environment: the clock, and an operator editing a role by hand      *)
(***************************************************************************)
Tick ==
    /\ now < SessionDays + MaxTicks
    /\ now' = now + 1
    /\ UNCHANGED <<users, items, nextItemId, issued, req, page>>

ProvisionRole(id, role) ==
    /\ \E u \in users :
          /\ u.id = id
          /\ u.role # role
          /\ users' = (users \ {u}) \cup {[u EXCEPT !.role = role]}
    /\ UNCHANGED <<items, nextItemId, now, issued, req, page>>

(***************************************************************************)
(* What the clients send                                                   *)
(***************************************************************************)
Cookies == {NoCookie, Garbage, ForgedToken} \cup issued

UnknownItemId == SeedItemCount + MaxItems + 1
TargetIds == {1, UnknownItemId} \cup (SeedItemCount + 1 .. SeedItemCount + MaxItems)

PostBodies ==
    { Json([name |-> Str("Widget"), sku |-> Str("W-1"), quantity |-> Num(5), minStock |-> Num(2)]),
      Json([name |-> Str("Labels"), sku |-> Str("LBL-THERM-100"), quantity |-> Str("5")]),
      Json([name |-> Str("W"), sku |-> Str("W-2"), quantity |-> Num(1)]),
      NotJson }

PatchBodies ==
    { Json([quantity |-> Num(1)]),
      Json([sku |-> Str("SCN-USB-200")]),
      Json([minStock |-> Num(3), status |-> Str("DISCONTINUED"), ownerId |-> Num(2)]),
      Json([quantity |-> Num(0 - 1)]),
      NotJson }

ItemsNext(c) ==
    \/ \E cookie \in Cookies : ItemsGET(c, cookie)
    \/ ItemsGET_findMany(c)
    \/ \E cookie \in Cookies, body \in PostBodies : ItemsPOST(c, cookie, body)
    \/ ItemsPOST_create(c)
    \/ \E cookie \in Cookies, id \in TargetIds, body \in PatchBodies : ItemPATCH(c, cookie, id, body)
    \/ ItemPATCH_findUnique(c)
    \/ ItemPATCH_update(c)
    \/ \E cookie \in Cookies, id \in TargetIds : ItemDELETE(c, cookie, id)
    \/ ItemDELETE_findUnique(c)
    \/ ItemDELETE_delete(c)
    \/ Receive(c)

\* one client at a time, every kind of request, within one day
Next == ItemsNext("c1")

Spec == Init /\ [][Next]_vars

\* creating and deleting, with an operator editing roles in between
NextOps ==
    \/ \E cookie \in Cookies, body \in PostBodies : ItemsPOST("c1", cookie, body)
    \/ ItemsPOST_create("c1")
    \/ \E cookie \in Cookies, id \in TargetIds : ItemDELETE("c1", cookie, id)
    \/ ItemDELETE_findUnique("c1")
    \/ ItemDELETE_delete("c1")
    \/ Receive("c1")
    \/ \E u \in users, role \in Roles : ProvisionRole(u.id, role)

SpecOps == Init /\ [][NextOps]_vars

\* two clients racing on one seeded item and one missing item, valid sessions only
RaceCookies ==
    {TokenOfDay(1, SeedUser.id, SeedUser.email, "ADMIN"),
     TokenOfDay(1, MemberUser.id, MemberUser.email, "MEMBER")}
RaceBodies == {Json([quantity |-> Num(1)])}
RaceIds == {1, UnknownItemId}

NextRace ==
    \E c \in Clients :
        \/ \E cookie \in RaceCookies, id \in RaceIds, body \in RaceBodies : ItemPATCH(c, cookie, id, body)
        \/ ItemPATCH_findUnique(c)
        \/ ItemPATCH_update(c)
        \/ \E cookie \in RaceCookies, id \in RaceIds : ItemDELETE(c, cookie, id)
        \/ ItemDELETE_findUnique(c)
        \/ ItemDELETE_delete(c)
        \/ Receive(c)

SpecRace == Init /\ [][NextRace]_vars

\* the auth routes, two clients, the clock running
RegisterBodies ==
    { Json([email |-> Str("c@x.com"), password |-> Str("secret3"), name |-> Str("Cy")]),
      Json([email |-> Str("c@x.com"), password |-> Str("hunter22"), name |-> Str("Cyd")]),
      Json([email |-> Str("a@x.com"), password |-> Str("secret1"), name |-> Str("Alex")]),
      Json([email |-> Str("c@x.com"), password |-> Str("abc"), name |-> Str("Cy")]),
      NotJson }

LoginBodies ==
    { Json([email |-> Str("a@x.com"), password |-> Str("secret1")]),
      Json([email |-> Str("c@x.com"), password |-> Str("secret3")]),
      Json([email |-> Str("c@x.com"), password |-> Str("hunter22")]),
      Json([email |-> Str("z@x.com"), password |-> Str("secret1")]),
      Json([email |-> Str("not-an-email"), password |-> Str("secret1")]),
      NotJson }

NextAuth ==
    \/ \E c \in Clients :
        \/ \E body \in RegisterBodies : AuthRegister(c, body)
        \/ AuthRegister_create(c)
        \/ \E body \in LoginBodies : AuthLogin(c, body)
        \/ \E cookie \in Cookies : AuthMe(c, cookie)
        \/ \E cookie \in Cookies : AuthLogout(c, cookie)
        \/ Receive(c)
    \/ Tick

SpecAuth == Init /\ [][NextAuth]_vars

\* creating and listing, two clients: one holds the answer to its POST while
\* the other lists
TripBodies ==
    PostBodies \cup
    { Json([name |-> Str("Spare Fuses"), sku |-> Str("FUS-10"), quantity |-> JNull,
            category |-> JNull, notes |-> Str("5A")]) }

NextTrip ==
    \E c \in Clients :
        \/ \E cookie \in Cookies : ItemsGET(c, cookie)
        \/ ItemsGET_findMany(c)
        \/ \E cookie \in Cookies, body \in TripBodies : ItemsPOST(c, cookie, body)
        \/ ItemsPOST_create(c)
        \/ Receive(c)

SpecTrip == Init /\ [][NextTrip]_vars

\* every route, one request after another
ApiPostBodies ==
    { Json([name |-> Str("Widget"), sku |-> Str("W-1"), quantity |-> Num(5), minStock |-> Num(2)]) }
ApiPatchBodies ==
    { Json([quantity |-> Num(1)]),
      Json([minStock |-> Num(3), status |-> Str("DISCONTINUED"), ownerId |-> Num(2)]) }
ApiIds == {1, SeedItemCount + 1}
ApiRegisterBodies ==
    { Json([email |-> Str("c@x.com"), password |-> Str("secret3"), name |-> Str("Cy"),
            role |-> Str("ADMIN")]),
      Json([email |-> Str("a@x.com"), password |-> Str("secret1"), name |-> Str("Alex")]) }
ApiLoginBodies ==
    { Json([email |-> Str("a@x.com"), password |-> Str("secret1")]),
      Json([email |-> Str("c@x.com"), password |-> Str("secret3")]) }

NextApi ==
    \/ \E body \in ApiRegisterBodies : AuthRegister("c1", body)
    \/ AuthRegister_create("c1")
    \/ \E body \in ApiLoginBodies : AuthLogin("c1", body)
    \/ \E cookie \in Cookies : AuthMe("c1", cookie)
    \/ \E cookie \in Cookies : AuthLogout("c1", cookie)
    \/ \E cookie \in Cookies : ItemsGET("c1", cookie)
    \/ ItemsGET_findMany("c1")
    \/ \E cookie \in Cookies, body \in ApiPostBodies : ItemsPOST("c1", cookie, body)
    \/ ItemsPOST_create("c1")
    \/ \E cookie \in Cookies, id \in ApiIds, body \in ApiPatchBodies : ItemPATCH("c1", cookie, id, body)
    \/ ItemPATCH_findUnique("c1")
    \/ ItemPATCH_update("c1")
    \/ \E cookie \in Cookies, id \in ApiIds : ItemDELETE("c1", cookie, id)
    \/ ItemDELETE_findUnique("c1")
    \/ ItemDELETE_delete("c1")
    \/ Receive("c1")

SpecApi == Init /\ [][NextApi]_vars

\* registrations, creates by two admins and PATCHes of the sku, interleaved
UniqueCookies ==
    {TokenOfDay(1, SeedUser.id, SeedUser.email, "ADMIN"),
     TokenOfDay(1, SecondAdmin.id, SecondAdmin.email, "MEMBER")}
UniquePostBodies ==
    { Json([name |-> Str("Widget"), sku |-> Str("W-1"), quantity |-> Num(5)]),
      Json([name |-> Str("Scanner"), sku |-> Str("SCN-USB-200"), quantity |-> Num(1)]) }
UniquePatchBodies ==
    { Json([sku |-> Str("W-1")]),
      Json([sku |-> Str("SCN-USB-200")]) }
UniqueIds == {1} \cup (SeedItemCount + 1 .. SeedItemCount + MaxItems)
UniqueRegisterBodies ==
    { Json([email |-> Str("c@x.com"), password |-> Str("secret3"), name |-> Str("Cy")]),
      Json([email |-> Str("a@x.com"), password |-> Str("secret1"), name |-> Str("Alex")]) }

NextUnique ==
    \E c \in Clients :
        \/ \E body \in UniqueRegisterBodies : AuthRegister(c, body)
        \/ AuthRegister_create(c)
        \/ \E cookie \in UniqueCookies, body \in UniquePostBodies : ItemsPOST(c, cookie, body)
        \/ ItemsPOST_create(c)
        \/ \E cookie \in UniqueCookies, id \in UniqueIds, body \in UniquePatchBodies :
              ItemPATCH(c, cookie, id, body)
        \/ ItemPATCH_findUnique(c)
        \/ ItemPATCH_update(c)
        \/ Receive(c)

SpecUnique == Init /\ [][NextUnique]_vars

\* JSON.stringify of a payload whose values are numbers and strings
Stringify(payload) ==
    Json([key \in DOMAIN payload |->
            IF key \in {"quantity", "minStock"} THEN Num(payload[key]) ELSE Str(payload[key])])

\* what ItemRow's Save hands to onUpdate: quantity, minStock and status together,
\* each the value edited in the row or else the one the row was rendered with
ItemRowPayload(item, edits) ==
    [quantity |-> IF "quantity" \in DOMAIN edits THEN edits.quantity ELSE item.quantity,
     minStock |-> IF "minStock" \in DOMAIN edits THEN edits.minStock ELSE item.minStock,
     status |-> IF "status" \in DOMAIN edits THEN edits.status ELSE item.status]

\* the body of the PATCH that Save leads to
ItemRowSave(item, edits) == Stringify(ItemRowPayload(item, edits))

\* the first seeded item as both browsers loaded it
LoadedItem == CHOOSE it \in SeedItems : it.name = baseItems[1].name

\* two users editing the row they loaded: one changes the quantity, the other
\* the minimum; a third caller sends the quantity alone
SaveBodies ==
    { ItemRowSave(LoadedItem, [quantity |-> LoadedItem.quantity - 20]),
      ItemRowSave(LoadedItem, [minStock |-> LoadedItem.minStock + 10]),
      Json([quantity |-> Num(1)]) }
SaveIds == {LoadedItem.id}

NextSave ==
    \E c \in Clients :
        \/ \E cookie \in RaceCookies, id \in SaveIds, body \in SaveBodies : ItemPATCH(c, cookie, id, body)
        \/ ItemPATCH_findUnique(c)
        \/ ItemPATCH_update(c)
        \/ Receive(c)

SpecSave == Init /\ [][NextSave]_vars

(***************************************************************************)
(* The page (src/app/page.tsx)                                             *)
(*                                                                         *)
(* One browser page with the seeded admin signed in. page.items is the     *)
(* React state `items`; each client is one fetch of the page, and          *)
(* page.calls[c] is the handler awaiting it, with what its closure holds.  *)
(* A handler is three steps: up to its await, the request reaching the     *)
(* route, and what follows the await.                                      *)
(***************************************************************************)
PageUser == PublicUser(SeedUser)
PageCookie == TokenOfDay(1, SeedUser.id, SeedUser.email, "ADMIN")
isAdmin == PageUser.role = "ADMIN"
canEdit == PageUser \in {PublicUser(u) : u \in users}

Call(c) == page.calls[c]
Shown == {page.items[i].id : i \in DOMAIN page.items}
Handle(c, call) == page' = [page EXCEPT !.calls[c] = call]

\* the handler may start: no handler of this fetch is pending
Free(c) == Call(c) = NoCall /\ Ready(c)
\* the request of the pending handler has not gone out yet
Unsent(c, handler) == Call(c).handler = handler /\ Ready(c)
\* jsonFetch has resolved or thrown: the handler goes on after its await
Settles(c, handler) == Call(c).handler = handler /\ req[c].pc = "done"
Ok(c) == req[c].status \in 200..299
\* the handler ends with `view` on screen; the response is consumed
Shows(c, view) ==
    /\ page' = [items |-> view, calls |-> [page.calls EXCEPT ![c] = NoCall]]
    /\ req' = [req EXCEPT ![c] = [pc |-> "idle"]]
    /\ UNCHANGED <<users, items, nextItemId, now, issued>>

\* called from init, the effect that runs once when the page mounts: nothing is
\* on screen yet and no handler is pending
loadItems(c) ==
    /\ Free(c)
    /\ page.items = <<>>
    /\ \A d \in Clients : Call(d) = NoCall
    /\ Handle(c, [handler |-> "loadItems"])
    /\ UNCHANGED <<users, items, nextItemId, now, issued, req>>

loadItems_fetch(c) ==
    /\ Unsent(c, "loadItems")
    /\ ItemsGET(c, PageCookie)

loadItems_done(c) ==
    /\ Settles(c, "loadItems")
    /\ Shows(c, IF Ok(c) THEN req[c].json.items ELSE page.items)

handleCreateItem(c, payload) ==
    /\ Free(c)
    /\ isAdmin
    /\ Handle(c, [handler |-> "handleCreateItem", payload |-> payload])
    /\ UNCHANGED <<users, items, nextItemId, now, issued, req>>

handleCreateItem_fetch(c) ==
    /\ Unsent(c, "handleCreateItem")
    /\ ItemsPOST(c, PageCookie, Stringify(Call(c).payload))

handleCreateItem_done(c) ==
    /\ Settles(c, "handleCreateItem")
    /\ Shows(c, IF Ok(c) THEN <<req[c].json.item>> \o page.items ELSE page.items)

handleUpdateItem(c, id, payload) ==
    /\ Free(c)
    /\ canEdit
    /\ id \in Shown
    /\ page' = [items |-> [i \in DOMAIN page.items |->
                              IF page.items[i].id = id THEN payload @@ page.items[i]
                              ELSE page.items[i]],
                calls |-> [page.calls EXCEPT ![c] =
                              [handler |-> "handleUpdateItem", id |-> id, payload |-> payload,
                               previous |-> page.items]]]
    /\ UNCHANGED <<users, items, nextItemId, now, issued, req>>

handleUpdateItem_fetch(c) ==
    /\ Unsent(c, "handleUpdateItem")
    /\ ItemPATCH(c, PageCookie, Call(c).id, Stringify(Call(c).payload))

handleUpdateItem_done(c) ==
    /\ Settles(c, "handleUpdateItem")
    /\ Shows(c, IF Ok(c) THEN page.items ELSE Call(c).previous)

handleDeleteItem(c, id) ==
    /\ Free(c)
    /\ isAdmin
    /\ id \in Shown
    /\ Handle(c, [handler |-> "handleDeleteItem", id |-> id])
    /\ UNCHANGED <<users, items, nextItemId, now, issued, req>>

handleDeleteItem_fetch(c) ==
    /\ Unsent(c, "handleDeleteItem")
    /\ ItemDELETE(c, PageCookie, Call(c).id)

handleDeleteItem_done(c) ==
    /\ Settles(c, "handleDeleteItem")
    /\ Shows(c, IF Ok(c) THEN SelectSeq(page.items, LAMBDA it : it.id # Call(c).id)
                ELSE page.items)

\* what the admin does on the page: add one item, save a row with a negative
\* or a lower quantity, remove a row
PageCreatePayloads ==
    { [name |-> "Widget", sku |-> "W-1", quantity |-> 5, category |-> "", location |-> "",
       minStock |-> 0, notes |-> "", status |-> "ACTIVE"] }
PageUpdatePayloads ==
    { ItemRowPayload(LoadedItem, [quantity |-> 0 - 1]),
      ItemRowPayload(LoadedItem, [quantity |-> LoadedItem.quantity - 20]) }
PageUpdateIds == SaveIds
PageDeleteIds == {SeedItemCount} \cup (SeedItemCount + 1 .. SeedItemCount + MaxItems)

NextPage ==
    \E c \in Clients :
        \/ loadItems(c)
        \/ loadItems_fetch(c)
        \/ ItemsGET_findMany(c)
        \/ loadItems_done(c)
        \/ \E payload \in PageCreatePayloads : handleCreateItem(c, payload)
        \/ handleCreateItem_fetch(c)
        \/ ItemsPOST_create(c)
        \/ handleCreateItem_done(c)
        \/ \E id \in PageUpdateIds, payload \in PageUpdatePayloads : handleUpdateItem(c, id, payload)
        \/ handleUpdateItem_fetch(c)
        \/ ItemPATCH_findUnique(c)
        \/ ItemPATCH_update(c)
        \/ handleUpdateItem_done(c)
        \/ \E id \in PageDeleteIds : handleDeleteItem(c, id)
        \/ handleDeleteItem_fetch(c)
        \/ ItemDELETE_findUnique(c)
        \/ ItemDELETE_delete(c)
        \/ handleDeleteItem_done(c)

SpecPage == Init /\ [][NextPage]_vars

(***************************************************************************)
(* Vocabulary of the properties                                            *)
(***************************************************************************)
ItemOps == {"GET", "POST", "PATCH", "DELETE"}

\* client c's request is received at this step (answered at once, or in flight)
Begins(c) == Ready(c) /\ req'[c] # req[c]
\* client c's request in flight takes a step
Steps(c, pc) == req[c].pc = pc /\ req'[c] # req[c]
Answered(c, status) == req'[c].pc = "done" /\ req'[c].status = status
Done(c, op) == req[c].pc = "done" /\ req[c].op = op

\* a session token is valid when this deployment signed it and it has not expired
ValidToken(cookie) == cookie \in issued /\ cookie.exp > now
Expired(cookie) == cookie \in issued /\ cookie.exp <= now
\* the stored rows a cookie speaks for: none without a valid token or without its row
StoredUserOf(cookie) == {u \in users : ValidToken(cookie) /\ u.id = cookie.userId}
StoredRoleOf(cookie) == {u.role : u \in StoredUserOf(cookie)}

(***************************************************************************)
(* C1: POST /items and DELETE /items/:id are refused with 403 exactly when *)
(* the role stored for the token's user at the time of the request is not  *)
(* ADMIN, whatever role the token carries from the day it was issued.      *)
(***************************************************************************)
C1_StoredRoleDecides ==
    [][\A c \in Clients :
         (Begins(c) /\ req'[c].op \in {"POST", "DELETE"} /\ StoredUserOf(req'[c].cookie) # {})
            => (Answered(c, 403) <=> StoredRoleOf(req'[c].cookie) # {"ADMIN"})]_vars

\* a token that says ADMIN was refused, its user having been demoted since
C1_Witness ==
    \E c \in Clients :
        /\ Done(c, "DELETE") /\ req[c].status = 403
        /\ req[c].cookie \in issued /\ req[c].cookie.role = "ADMIN"

(***************************************************************************)
(* C2: an authenticated user whose stored role is not ADMIN gets 403 from  *)
(* POST /items and DELETE /items/:id whatever the body and whether or not  *)
(* the target exists, and the store is left as it was.                     *)
(***************************************************************************)
C2_NonAdminRefused ==
    [][\A c \in Clients :
         (/\ Begins(c) /\ req'[c].op \in {"POST", "DELETE"}
          /\ StoredUserOf(req'[c].cookie) # {}
          /\ "ADMIN" \notin StoredRoleOf(req'[c].cookie))
            => (Answered(c, 403) /\ UNCHANGED <<users, items, nextItemId>>)]_vars

\* a member was refused on a body that is not even JSON, and on a missing item
C2_Witness ==
    \E c \in Clients :
        /\ req[c].pc = "done" /\ req[c].status = 403
        /\ StoredRoleOf(req[c].cookie) = {"MEMBER"}
        /\ \/ req[c].op = "POST" /\ ~req[c].body.json
           \/ req[c].op = "DELETE" /\ FindItem(req[c].id) = {}

(***************************************************************************)
(* C3: DELETE /items/:id by an ADMIN on an existing item another user owns *)
(* is answered 404, never 403 or 200, and the item stays in the store.     *)
(***************************************************************************)
OwnedByAnother(c) ==
    \E it \in items : it.id = req[c].id /\ it.ownerId # req[c].cookie.userId

C3_ForeignDeleteNotFound ==
    [][\A c \in Clients :
         /\ (/\ Begins(c) /\ req'[c].op = "DELETE"
             /\ StoredRoleOf(req'[c].cookie) = {"ADMIN"})
               => req'[c].pc = "DELETE_findUnique"
         /\ (Steps(c, "DELETE_findUnique") /\ OwnedByAnother(c))
               => (Answered(c, 404) /\ UNCHANGED items)]_vars

C3_Witness ==
    \E c \in Clients :
        /\ Done(c, "DELETE") /\ req[c].status = 404
        /\ StoredRoleOf(req[c].cookie) = {"ADMIN"}
        /\ OwnedByAnother(c)

(***************************************************************************)
(* C4: without a valid session (no cookie, a malformed, wrongly signed or  *)
(* expired token, or a token for a user id not in the store) every items   *)
(* route answers 401 before looking at role, body or target, and the store *)
(* is left as it was.                                                      *)
(***************************************************************************)
C4_NoSessionUnauthorized ==
    [][\A c \in Clients :
         (Begins(c) /\ req'[c].op \in ItemOps /\ StoredUserOf(req'[c].cookie) = {})
            => (Answered(c, 401) /\ UNCHANGED <<users, items, nextItemId>>)]_vars

\* an expired token on a PATCH of a missing item with an invalid body
C4_Witness ==
    \E c \in Clients :
        /\ Done(c, "PATCH") /\ req[c].status = 401
        /\ Expired(req[c].cookie)
        /\ FindItem(req[c].id) = {}
        /\ ~req[c].body.json

(***************************************************************************)
(* C5: a successful PATCH changes only the fields its body carries, and    *)
(* updatedAt; every other field of the item, and every other item, keeps   *)
(* its value.                                                              *)
(***************************************************************************)
C5_PatchChangesOnlyGivenFields ==
    [][\A c \in Clients :
         (Steps(c, "PATCH_update") /\ Answered(c, 200))
            => \E old \in items, new \in items' :
                  /\ old.id = req[c].id /\ new.id = req[c].id
                  /\ items' \ {new} = items \ {old}
                  /\ \A col \in ItemColumns \ {"updatedAt"} :
                        col \notin DOMAIN req[c].body.obj => new[col] = old[col]]_vars

(***************************************************************************)
(* C6: POST /items by an ADMIN with a valid payload whose sku the same     *)
(* owner already uses is answered 409, and the store is left as it was.    *)
(***************************************************************************)
C6_DuplicateSkuConflict ==
    [][\A c \in Clients :
         (/\ Steps(c, "POST_create")
          /\ \E it \in items : it.ownerId = req[c].cookie.userId /\ it.sku = req[c].body.obj.sku.s)
            => (Answered(c, 409) /\ UNCHANGED <<users, items, nextItemId>>)]_vars

(***************************************************************************)
(* C7: once a valid registration for an email has been answered 201, every *)
(* later valid registration for that email is answered 409 and adds no     *)
(* user: the row stays, a registration that starts while the row is there  *)
(* is refused, and so exactly one user has the email.                      *)
(***************************************************************************)
ValidRegistration(r) == r.op = "REGISTER" /\ r.body.json /\ registerSchemaOk(r.body.obj)

C7_SecondRegistrationConflicts ==
    /\ [](\A c \in Clients :
            (Done(c, "REGISTER") /\ req[c].status = 201)
               => Cardinality(FindUserByEmail(req[c].body.obj.email.s)) = 1)
    /\ [][\A u \in users : FindUserByEmail(u.email)' # {}]_vars
    /\ [][\A c \in Clients :
            (/\ Begins(c) /\ ValidRegistration(req'[c])
             /\ FindUserByEmail(req'[c].body.obj.email.s) # {})
               => (Answered(c, 409) /\ UNCHANGED users)]_vars

\* c@x.com is not an account of the starting deployment: it was registered, then refused
C7_Witness ==
    \E c \in Clients :
        /\ Done(c, "REGISTER") /\ req[c].status = 409
        /\ req[c].body.obj.email.s = "c@x.com"
        /\ Cardinality(FindUserByEmail("c@x.com")) = 1

(***************************************************************************)
(* C8: PATCH /items/:id with a valid session and payload is answered 404   *)
(* and changes no item whenever the target is not in the store when the    *)
(* handler looks for it or writes it, a concurrent DELETE included.        *)
(***************************************************************************)
C8_PatchMissingIsNotFound ==
    [][\A c \in Clients :
         (/\ Steps(c, "PATCH_findUnique") \/ Steps(c, "PATCH_update")
          /\ FindItem(req[c].id) = {})
            => (Answered(c, 404) /\ UNCHANGED items)]_vars

(***************************************************************************)
(* C9: two well-formed logins with the same input, one finding the email   *)
(* with a wrong password and one not finding the email, get the same       *)
(* status, body and cookie.                                                *)
(***************************************************************************)
Observable(r) == [status |-> r.status, json |-> r.json, setCookie |-> r.setCookie]

WrongPasswordVsUnknownEmail(c, d) ==
    /\ Done(c, "LOGIN") /\ Done(d, "LOGIN")
    /\ req[c].body = req[d].body
    /\ req[c].body.json /\ loginSchemaOk(req[c].body.obj)
    /\ req[c].found /\ ~req[c].valid
    /\ ~req[d].found

C9_LoginFailuresIndistinguishable ==
    \A c, d \in Clients :
        WrongPasswordVsUnknownEmail(c, d) => Observable(req[c]) = Observable(req[d])

C9_Witness ==
    \E c, d \in Clients : WrongPasswordVsUnknownEmail(c, d)

(***************************************************************************)
(* C10: requireUser returns none when the token is absent, malformed,      *)
(* wrongly signed, expired or names a user id not in the store, and then   *)
(* GET /auth/me answers 200 with user null.                                *)
(***************************************************************************)
C10_NoSessionMeansNoUser ==
    /\ [](\A cookie \in Cookies : StoredUserOf(cookie) = {} => requireUser(cookie) = {})
    /\ [][\A c \in Clients :
            (Begins(c) /\ req'[c].op = "ME" /\ StoredUserOf(req'[c].cookie) = {})
               => (Answered(c, 200) /\ req'[c].json = [user |-> JNull])]_vars

\* a session of day 1 presented after the clock passed its expiry
C10_Witness ==
    \E c \in Clients :
        /\ Done(c, "ME") /\ req[c].status = 200 /\ req[c].json = [user |-> JNull]
        /\ Expired(req[c].cookie) /\ req[c].cookie.iat = 1
        /\ \E u \in users : u.id = req[c].cookie.userId

(***************************************************************************)
(* C11 (as stated): after an ADMIN's POST /items with a valid payload is   *)
(* answered 201, a following GET /items by any authenticated user lists an *)
(* item whose fields equal the submitted ones (minStock 0 and status       *)
(* ACTIVE where omitted), with the generated id and timestamps.            *)
(***************************************************************************)
\* a stored column as the JSON value the list carries
ColumnJson(key, x) ==
    IF key \in {"quantity", "minStock"} THEN Num(x)
    ELSE IF x = Null THEN JNull
    ELSE Str(x)

\* the list entry is the created record: generated id, timestamps, defaults
IsCreatedRecord(it, r) ==
    /\ it.id = r.json.item.id
    /\ it.createdAt = r.json.item.createdAt
    /\ it.updatedAt = r.json.item.updatedAt
    /\ "minStock" \notin DOMAIN r.body.obj => it.minStock = 0
    /\ "status" \notin DOMAIN r.body.obj => it.status = "ACTIVE"

\* every submitted field is found as it was sent
MatchesSubmitted(it, r) ==
    /\ IsCreatedRecord(it, r)
    /\ \A key \in ItemKeys \cap DOMAIN r.body.obj : ColumnJson(key, it[key]) = r.body.obj[key]

\* every submitted field is found, a quantity or minStock as the number
\* Number(v) makes of what was sent
MatchesCoerced(it, r) ==
    /\ IsCreatedRecord(it, r)
    /\ \A key \in ItemKeys \cap DOMAIN r.body.obj :
          IF key \in {"quantity", "minStock"}
          THEN it[key] \in CoerceNumber(r.body.obj[key])
          ELSE ColumnJson(key, it[key]) = r.body.obj[key]

\* client d's listing is answered while client c holds the 201 of its POST
ListsAfterCreate(c, d) ==
    /\ Done(c, "POST") /\ req[c].status = 201
    /\ Steps(d, "GET_findMany")

C11_CreateThenList ==
    [][\A c, d \in Clients :
         ListsAfterCreate(c, d)
            => /\ Answered(d, 200)
               /\ \E i \in DOMAIN req'[d].json.items :
                     MatchesSubmitted(req'[d].json.items[i], req[c])]_vars

(***************************************************************************)
(* C11 (amended): as above, a submitted quantity or minStock being found   *)
(* as the number the schema coerces it to ("5" as 5, null and "" as 0).    *)
(***************************************************************************)
C11_CreateThenListCoerced ==
    [][\A c, d \in Clients :
         ListsAfterCreate(c, d)
            => /\ Answered(d, 200)
               /\ \E i \in DOMAIN req'[d].json.items :
                     MatchesCoerced(req'[d].json.items[i], req[c])]_vars

\* a member, not the owner, has listed the item an admin created with a null quantity
C11_Witness ==
    \E c, d \in Clients :
        /\ Done(c, "POST") /\ req[c].status = 201
        /\ req[c].body.obj.quantity = JNull
        /\ Done(d, "GET") /\ req[d].status = 200
        /\ StoredRoleOf(req[d].cookie) = {"MEMBER"}
        /\ \E i \in DOMAIN req[d].json.items :
              /\ MatchesCoerced(req[d].json.items[i], req[c])
              /\ req[d].json.items[i].ownerId # req[d].cookie.userId

(***************************************************************************)
(* C12: no API request changes the role of an existing user or removes a   *)
(* user, and every user a registration creates has role MEMBER; so the     *)
(* ADMIN users are in every reachable state those of the initial state.    *)
(***************************************************************************)
AdminIds == {u.id : u \in {x \in users : x.role = "ADMIN"}}

C12_RolesNeverChange ==
    /\ [][\A u \in users : \E v \in users' : v.id = u.id /\ v.role = u.role]_vars
    /\ [][\A v \in users' : (\A u \in users : u.id # v.id) => v.role = "MEMBER"]_vars
    /\ [](AdminIds = {SeedUser.id, SecondAdmin.id})

\* an account registered with "role": "ADMIN" in its body was stored as a
\* MEMBER and refused when it tried to create an item
C12_Witness ==
    /\ Done("c1", "POST") /\ req["c1"].status = 403
    /\ \E u \in users \ {SeedUser, MemberUser, SecondAdmin} :
          /\ u.id = req["c1"].cookie.userId
          /\ u.role = "MEMBER"

(***************************************************************************)
(* C13: every request ends in a success or in a response the handler made  *)
(* itself; no failure leaves a handler uncaught, a store rejection or a    *)
(* body that is not JSON included.                                         *)
(***************************************************************************)
C13_NoFailureEscapes ==
    \A c \in Clients : req[c].pc = "done" => "uncaught" \notin DOMAIN req[c].json

(***************************************************************************)
(* C14: when two valid registrations for one email overlap, both passing   *)
(* the existence check before either inserts, exactly one user is stored   *)
(* and the request whose insert the email uniqueness rejects is answered   *)
(* 409.                                                                    *)
(***************************************************************************)
C14_OverlappingRegistrations ==
    /\ [](\A u, v \in users : u.email = v.email => u = v)
    /\ [][\A c \in Clients :
            (Steps(c, "REGISTER_create") /\ FindUserByEmail(req[c].email) # {})
               => (Answered(c, 409) /\ UNCHANGED users)]_vars

(***************************************************************************)
(* C15: in every reachable state no two items share an (ownerId, sku) pair *)
(* and no two users share an email, whatever the interleaving of           *)
(* registrations, creates by one or several admins and PATCHes that change *)
(* a sku.                                                                  *)
(***************************************************************************)
C15_UniquePairs ==
    /\ \A a, b \in items : (a.ownerId = b.ownerId /\ a.sku = b.sku) => a = b
    /\ \A u, v \in users : u.email = v.email => u = v

\* two owners hold the same sku, a PATCH that would have given one owner the
\* sku twice was rejected, and so was an overlapping registration
C15_Witness ==
    /\ \E a, b \in items : a.sku = b.sku /\ a.ownerId # b.ownerId
    /\ \E c, d \in Clients :
          /\ Done(c, "PATCH") /\ req[c].json = Uncaught("P2002")
          /\ Done(d, "REGISTER") /\ req[d].status = 500
             /\ req[d].body.json /\ registerSchemaOk(req[d].body.obj)

(***************************************************************************)
(* C16: an item leaves the store only through a DELETE issued by a user    *)
(* whose stored role is ADMIN and whose id is the item's ownerId; ownerId  *)
(* is the id of the user who created the item and no PATCH changes it,     *)
(* whatever its body.                                                      *)
(***************************************************************************)
C16_OnlyOwnerAdminDeletes ==
    [][/\ \A it \in items :
            (\A x \in items' : x.id # it.id)
               => \E c \in Clients :
                     /\ Steps(c, "DELETE_delete") /\ req[c].id = it.id
                     /\ StoredRoleOf(req[c].cookie) = {"ADMIN"}
                     /\ req[c].cookie.userId = it.ownerId
       /\ \A it \in items, x \in items' : x.id = it.id => x.ownerId = it.ownerId
       /\ \A x \in items' :
            (\A it \in items : it.id # x.id)
               => \E c \in Clients :
                     Steps(c, "POST_create") /\ x.ownerId = req[c].cookie.userId]_vars

\* the second admin has deleted the item it created, while the seeded admin's
\* items, which it may not delete, are all still there
C16_Witness ==
    \E c \in Clients :
        /\ Done(c, "DELETE") /\ req[c].status = 200
        /\ req[c].id > SeedItemCount /\ FindItem(req[c].id) = {}
        /\ req[c].cookie.userId = SecondAdmin.id
        /\ \A i \in 1..SeedItemCount : \E it \in items : it.id = i /\ it.ownerId = SeedUser.id

(***************************************************************************)
(* C17: two overlapping PATCHes of one existing item by two authenticated  *)
(* users are both answered 200, no conflict reported; each field is then   *)
(* what the write applied last made it, and the earlier writer's value of  *)
(* a field both carry is lost. A Save always carries quantity, minStock    *)
(* and status, so a Save from a stale row undoes another user's quantity   *)
(* change.                                                                 *)
(***************************************************************************)
\* the stored row of client c's target
Stored(c) == CHOOSE it \in items : it.id = req[c].id

\* whatever the other client did meanwhile, the write goes through, is answered
\* 200 with the row it wrote, and every field it carries is stored as parsed
WriteWins(c) ==
    (/\ Steps(c, "PATCH_update")
     /\ FindItem(req[c].id) # {}
     /\ "sku" \notin DOMAIN req[c].body.obj)
       => /\ Answered(c, 200)
          /\ req'[c].json.item \in items'
          /\ req'[c].json.item.id = req[c].id
          /\ \A key \in ItemKeys \cap DOMAIN req[c].body.obj :
                IF key \in {"quantity", "minStock"}
                THEN req'[c].json.item[key] \in CoerceNumber(req[c].body.obj[key])
                ELSE ColumnJson(key, req'[c].json.item[key]) = req[c].body.obj[key]

\* both answered 200: the row is the one the later write answered with
BothAnswered(c, d) ==
    /\ c # d
    /\ Done(c, "PATCH") /\ req[c].status = 200
    /\ Done(d, "PATCH") /\ req[d].status = 200
    /\ req[c].id = req[d].id

C17_LastWriteWins ==
    /\ [][\A c \in Clients : WriteWins(c)]_vars
    /\ [](\A c, d \in Clients :
            BothAnswered(c, d) => Stored(c) \in {req[c].json.item, req[d].json.item})

\* one user saved a lower quantity, the other saved a higher minimum from the
\* row as loaded: both were answered 200 and the stored quantity is the loaded
\* one again
C17_Witness ==
    \E c, d \in Clients :
        /\ BothAnswered(c, d)
        /\ req[c].cookie # req[d].cookie
        /\ req[c].body = ItemRowSave(LoadedItem, [quantity |-> LoadedItem.quantity - 20])
        /\ req[c].json.item.quantity = LoadedItem.quantity - 20
        /\ req[d].body = ItemRowSave(LoadedItem, [minStock |-> LoadedItem.minStock + 10])
        /\ Stored(c) = req[d].json.item
        /\ Stored(c).quantity = LoadedItem.quantity

(***************************************************************************)
(* C18: when the page's PATCH fails, the visible list becomes what it      *)
(* would be had the update not been attempted: the failed row's optimistic *)
(* change is undone, and every other change that became visible meanwhile  *)
(* (another update, a created or a deleted item) stays visible.            *)
(***************************************************************************)
\* the row of `view` with this id
Row(view, id) == view[CHOOSE i \in DOMAIN view : view[i].id = id]

\* `view` with the fields the failed update set put back to what they were
WithoutUpdate(view, call) ==
    [i \in DOMAIN view |->
        IF view[i].id = call.id
        THEN [key \in DOMAIN view[i] |->
                IF key \in DOMAIN call.payload THEN Row(call.previous, call.id)[key]
                ELSE view[i][key]]
        ELSE view[i]]

C18_RollbackKeepsOtherChanges ==
    [][\A c \in Clients :
         (Settles(c, "handleUpdateItem") /\ ~Ok(c) /\ page'.calls[c] = NoCall)
            => page'.items = WithoutUpdate(page.items, Call(c))]_vars

(***************************************************************************)
(* C19: logout always answers success and changes nothing on the server;   *)
(* it only replaces the caller's cookie by an empty, expired one. A token  *)
(* that register or login issued before the logout is still accepted by    *)
(* requireUser on a later request, until its expiry after 7 days and as    *)
(* long as its user is in the store.                                       *)
(***************************************************************************)
\* client d's request arrives with the token client c has logged out with
AfterLogoutOf(c, d) ==
    /\ Done(c, "LOGOUT")
    /\ Begins(d) /\ req'[d].op = "ME"
    /\ req'[d].cookie = req[c].cookie
    /\ StoredUserOf(req[c].cookie) # {}

C19_LogoutChangesNothing ==
    /\ [][\A c \in Clients :
            (Begins(c) /\ req'[c].op = "LOGOUT")
               => /\ Answered(c, 200) /\ req'[c].json = [success |-> TRUE]
                  /\ req'[c].setCookie.name = SESSION_COOKIE
                  /\ req'[c].setCookie.value = NoCookie /\ req'[c].setCookie.maxAge = 0
                  /\ UNCHANGED <<users, items, nextItemId, issued>>]_vars
    /\ [][\A c, d \in Clients :
            AfterLogoutOf(c, d)
               => req'[d].json.user \in {PublicUser(u) : u \in StoredUserOf(req[c].cookie)}]_vars
    /\ [](\A c \in Clients :
            (Done(c, "LOGOUT") /\ StoredUserOf(req[c].cookie) # {})
               => requireUser(req[c].cookie) # {})

\* a session signed by register or login in this run was logged out with, and
\* /auth/me answers it with its user
C19_Witness ==
    \E c, d \in Clients :
        /\ Done(c, "LOGOUT") /\ req[c].cookie \in issued \ InitialTokens
        /\ Done(d, "ME") /\ req[d].cookie = req[c].cookie
        /\ req[d].json.user \in {PublicUser(u) : u \in users}
        /\ req[d].json.user.id = req[c].cookie.userId

====
